---- MODULE Spec2Model ----
(***************************************************************************)
(* ComfyUI-Downloader (src/__init__.py): the single-slot download queue,   *)
(* the registry of download statuses, the per-download control entries and *)
(* the transfer coroutine download_file with its chunk fetchers, run on    *)
(* one asyncio event loop.                                                 *)
(*                                                                         *)
(* A step of the model is what one coroutine does between two suspension   *)
(* points.  Callbacks and freshly created tasks wait in the loop's FIFO    *)
(* `ready`; a coroutine waiting for the network (a response, the next      *)
(* piece of a body, the completion of PromptServer.instance.send) resumes  *)
(* at any later time, and so does the handler of an HTTP request: the      *)
(* model allows every order in which the loop can run them.                *)
(***************************************************************************)
EXTENDS Integers, Sequences, FiniteSets, TLC

\* ------------------------------------------------------------ constants
CHUNK_SIZE == 32 * 1024 * 1024
NUM_CONNECTIONS == 8

\* --------------------------------------------------------------- bounds
\* download ids (save_path/filename) the clients submit
Ids == {"a", "b"}
\* admissions (successful start_download requests) in one run
MaxJobs == 2
\* size in bytes of the resources served in the queue scenarios
SmallSize == 2
\* the large resources are up to CHUNK_SIZE + MaxExtra bytes long
MaxExtra == 120
\* chunk requests the server answers at the same time
MaxParallel == 2
\* chunk requests of one transfer the server fails
MaxFaults == 1
\* chunk requests of one transfer the server answers 200 with the whole body
MaxFullBodies == 1
\* admissions in the scenarios of one large transfer
MaxXferJobs == 1
\* admissions in the scenarios of the queue without cancellation
MaxQueueJobs == 3

VARIABLES
    active_downloads,       \* registry: download_id -> status record
    download_control,       \* download_id -> control record
    download_queue,         \* pending descriptors, head first
    current_download_task,  \* NoTask or the handle of a download_file task
    tasks,                  \* handle -> frame of a download_file task
    ready,                  \* the event loop's FIFO of ready callbacks
    sending,                \* process_download_queue tasks suspended in send
    files,                  \* output_path (one per id) -> file on disk
    urls,                   \* the resource served at each job's url
    jobs,                   \* history: the ids admitted, in admission order
    cancelled_pending,      \* history: jobs struck from the queue by cancel
    cancelled_inflight      \* history: jobs cancelled between dequeue and task end

vars == <<active_downloads, download_control, download_queue,
          current_download_task, tasks, ready, sending, files, urls, jobs,
          cancelled_pending, cancelled_inflight>>

\* ------------------------------------------------------------- helpers
NoTask == 0
Absent == -1
Terminal == {"completed", "error", "cancelled"}

Put(d, k, v) == [x \in DOMAIN d \cup {k} |-> IF x = k THEN v ELSE d[x]]
Del(d, k) == [x \in DOMAIN d \ {k} |-> d[x]]
Min(x, y) == IF x < y THEN x ELSE y
Max(x, y) == IF x > y THEN x ELSE y

\* round(x / total * 100, 2) in hundredths of a percent, x >= 0, total > 0.
\* The quotient is developed digit by digit so that no product leaves the
\* range of the integers of the checker; ties go to the even neighbour.
Round2(x, total) ==
    LET q0 == x \div total
        r0 == x % total
        d1 == (r0 * 10) \div total
        r1 == (r0 * 10) % total
        d2 == (r1 * 10) \div total
        r2 == (r1 * 10) % total
        d3 == (r2 * 10) \div total
        r3 == (r2 * 10) % total
        d4 == (r3 * 10) \div total
        r4 == (r3 * 10) % total
        fl == q0 * 10000 + d1 * 1000 + d2 * 100 + d3 * 10 + d4
    IN  IF 2 * r4 > total THEN fl + 1
        ELSE IF 2 * r4 < total THEN fl
        ELSE IF fl % 2 = 0 THEN fl ELSE fl + 1

NoFetch == [pc |-> "none", start |-> 0, end |-> 0, body |-> 0, written |-> 0,
            linked |-> FALSE, reported |-> FALSE]

PdqItem == [kind |-> "pdq", task |-> NoTask]
DlItem(h) == [kind |-> "dl", task |-> h]
CbItem(h) == [kind |-> "cb", task |-> h]

TaskDone(h) == tasks[h].pc = "done"

\* the jobs dequeued whose download_file task has not finished
InFlight == {d.job : d \in sending} \cup {h \in DOMAIN tasks : ~TaskDone(h)}
JobId(h) == jobs[h]

\* os.remove / unlink of an output file: the handles open on it keep writing
\* to the unlinked file, which the path no longer names
Unlinked(ts, id) ==
    [h \in DOMAIN ts |->
        IF ts[h].id # id THEN ts[h]
        ELSE [ts[h] EXCEPT
                 !.stream = [@ EXCEPT !.linked = FALSE],
                 !.chunks = [i \in DOMAIN @ |-> [@[i] EXCEPT !.linked = FALSE]]]]

\* ------------------------------------------------------- start_download
\* lines 130-173 of an accepted request
start_download(id, override) ==
    /\ id \in DOMAIN files => override
    /\ files' = Del(files, id)
    /\ tasks' = IF id \in DOMAIN files THEN Unlinked(tasks, id) ELSE tasks
    /\ active_downloads' = Put(active_downloads, id,
            [status |-> "queued", progress |-> 0, downloaded |-> Absent,
             total |-> Absent, error |-> "none"])
    /\ download_queue' = Append(download_queue,
                                [download_id |-> id, job |-> Len(jobs) + 1])
    /\ ready' = Append(ready, PdqItem)
    /\ jobs' = Append(jobs, id)
    /\ UNCHANGED <<download_control, current_download_task, sending, urls,
                   cancelled_pending, cancelled_inflight>>

\* ---------------------------------------- start_download: the request
\* Strings of a request are sequences of characters.
StartsWith(str, pre) ==
    Len(str) >= Len(pre) /\ SubSeq(str, 1, Len(pre)) = pre
Contains(str, sub) ==
    \E k \in 1..(Len(str) - Len(sub) + 1) : SubSeq(str, k, k + Len(sub) - 1) = sub

\* str.split("/") and "/".join(parts)
RECURSIVE Split(_)
Split(str) ==
    IF \A k \in 1..Len(str) : str[k] # "/" THEN <<str>>
    ELSE LET k == CHOOSE k \in 1..Len(str) :
                     str[k] = "/" /\ \A j \in 1..(k - 1) : str[j] # "/"
         IN  <<SubSeq(str, 1, k - 1)>> \o Split(SubSeq(str, k + 1, Len(str)))
RECURSIVE Join(_)
Join(parts) ==
    IF Len(parts) = 0 THEN <<>>
    ELSE IF Len(parts) = 1 THEN parts[1]
    ELSE parts[1] \o <<"/">> \o Join(Tail(parts))

\* os.path.normpath (posixpath) on the components still to be read
RECURSIVE NormComps(_, _, _)
NormComps(comps, kept, rooted) ==
    IF Len(comps) = 0 THEN kept
    ELSE LET c == Head(comps)
             up == <<".", ".">>
         IN  IF c = <<>> \/ c = <<".">> THEN NormComps(Tail(comps), kept, rooted)
             ELSE IF c # up \/ (~rooted /\ Len(kept) = 0)
                         \/ (Len(kept) > 0 /\ kept[Len(kept)] = up)
             THEN NormComps(Tail(comps), Append(kept, c), rooted)
             ELSE IF Len(kept) > 0
             THEN NormComps(Tail(comps), SubSeq(kept, 1, Len(kept) - 1), rooted)
             ELSE NormComps(Tail(comps), kept, rooted)
NormPath(path) ==
    LET rooted == StartsWith(path, <<"/">>)
        body == Join(NormComps(Split(path), <<>>, rooted))
        out == IF rooted THEN <<"/">> \o body ELSE body
    IN  IF out = <<>> THEN <<".">> ELSE out

\* line 85: os.path.normpath(filename).replace("\\", "/")
SafeFilename(filename) ==
    LET n == NormPath(filename)
    IN  [k \in 1..Len(n) |-> IF n[k] = "\\" THEN "/" ELSE n[k]]

\* folder_paths.folder_names_and_paths: the directories of each category
FolderNamesAndPaths ==
    [checkpoints |-> << <<"/", "m", "o", "d", "e", "l", "s", "/", "c">> >>,
     custom_nodes |-> << <<"/", "n">> >>,
     unset |-> << >>]

\* mutant of Validate: the url is not looked at
Validate_UrlOptional(req) ==
    LET filename == req.filename
        safe == SafeFilename(filename)
    IN  IF req.save_path = "" \/ filename = <<>>
        THEN [error |-> "Missing required parameters"]
        ELSE IF Contains(filename, <<"\\">>)
        THEN [error |-> "backslashes not allowed"]
        ELSE IF Contains(filename, <<".", ".">>) \/ StartsWith(filename, <<"/">>)
                    \/ StartsWith(filename, <<"~">>)
        THEN [error |-> "path traversal patterns detected"]
        ELSE IF req.save_path # "checkpoints" \/ safe = <<".">>
        THEN [error |-> "Invalid save_path"]
        ELSE [error |-> "ok", safe_filename |-> safe]

\* lines 64-128: "ok" and the output path, or the error of the response
Validate(req) ==
    LET filename == req.filename
        safe == SafeFilename(filename)
        paths == FolderNamesAndPaths[req.save_path]
        model_paths == SelectSeq(paths,
                           LAMBDA q : Contains(q, <<"/", "m", "o", "d", "e", "l", "s", "/">>))
        output_dir == NormPath(model_paths[1])
        output_path == NormPath(model_paths[1] \o <<"/">> \o safe)
    IN  IF req.url = "" \/ req.save_path = "" \/ filename = <<>>
        THEN [error |-> "Missing required parameters"]
        ELSE IF Contains(filename, <<"\\">>)
        THEN [error |-> "backslashes not allowed"]
        ELSE IF Contains(filename, <<".", ".">>) \/ StartsWith(filename, <<"/">>)
                    \/ StartsWith(filename, <<"~">>)
        THEN [error |-> "path traversal patterns detected"]
        ELSE IF StartsWith(safe, <<"/">>) \/ StartsWith(safe, <<".", ".", "/">>)
                    \/ Contains(safe, <<"/", ".", ".", "/">>)
        THEN [error |-> "path traversal detected"]
        ELSE IF req.save_path \notin DOMAIN FolderNamesAndPaths
        THEN [error |-> "Invalid save_path"]
        ELSE IF Len(paths) = 0
        THEN [error |-> "No valid paths configured"]
        ELSE IF Len(model_paths) = 0
        THEN [error |-> "No valid model paths"]
        ELSE IF ~StartsWith(output_path, output_dir \o <<"/">>)
        THEN [error |-> "attempted directory escape"]
        ELSE [error |-> "ok", safe_filename |-> safe]

\* the requests a client may send to start_download: well-formed ones for
\* the file a, and ones with one or more defects
StartRequests ==
    [url : {"u"}, save_path : {"checkpoints"},
     filename : {<<>>, <<"a">>, <<".", "/", "a">>, <<".">>, <<".", ".">>,
                 <<"a", "/", ".", ".">>, <<"\\", "a">>, <<"/", "a">>,
                 <<"~", "a">>, <<"a", ".", ".", "b">>},
     override : BOOLEAN]
    \cup [url : {""}, save_path : {"checkpoints"}, filename : {<<"a">>},
          override : BOOLEAN]
    \cup [url : {"u"}, save_path : {"", "nowhere", "custom_nodes", "unset"},
          filename : {<<"a">>}, override : BOOLEAN]

\* the answer of Validate to each of them
Validated == [req \in StartRequests |-> Validate(req)]

\* line 153: the download id save_path/safe_filename, for the one category
\* that has a models directory
DownloadId(safe_filename) == safe_filename[1]

\* lines 55-186: the handler of a request; a rejected request and one
\* answered with confirm_override return before anything is changed
start_download_request(req) ==
    LET v == Validated[req]
    IN  IF v.error # "ok" THEN UNCHANGED vars
        ELSE /\ Len(v.safe_filename) = 1
             /\ DownloadId(v.safe_filename) \in Ids
             /\ IF DownloadId(v.safe_filename) \in DOMAIN files /\ ~req.override
                THEN UNCHANGED vars
                ELSE start_download(DownloadId(v.safe_filename), req.override)

\* ----------------------------------------------- process_download_queue
\* lines 223-227: the transfer task is created and made the current one
StartTransfer(item, rdy) ==
    /\ tasks' = Put(tasks, item.job,
            [id |-> item.download_id, pc |-> "new", total_size |-> 0,
             supports_range |-> FALSE, stream |-> NoFetch, chunks |-> <<>>, full |-> 0,
             completes |-> 0])
    /\ current_download_task' = item.job
    /\ ready' = Append(rdy, DlItem(item.job))

\* lines 189-227, up to the end or to the suspension in send (line 216)
process_download_queue ==
    /\ ready # <<>>
    /\ Head(ready).kind = "pdq"
    /\ IF current_download_task # NoTask /\ ~TaskDone(current_download_task)
       THEN /\ ready' = Tail(ready)
            /\ UNCHANGED <<active_downloads, download_queue,
                           current_download_task, tasks, sending>>
       ELSE IF Len(download_queue) = 0
       THEN /\ ready' = Tail(ready)
            /\ UNCHANGED <<active_downloads, download_queue,
                           current_download_task, tasks, sending>>
       ELSE LET item == Head(download_queue)
                id == item.download_id
            IN  /\ download_queue' = Tail(download_queue)
                /\ active_downloads' = [active_downloads EXCEPT
                       ![id].status = "downloading",
                       ![id].progress = 0,
                       ![id].downloaded = 0]
                /\ \/ /\ StartTransfer(item, Tail(ready))
                      /\ UNCHANGED sending
                   \/ /\ sending' = sending \cup {item}
                      /\ ready' = Tail(ready)
                      /\ UNCHANGED <<current_download_task, tasks>>
    /\ UNCHANGED <<download_control, files, urls, jobs, cancelled_pending,
                   cancelled_inflight>>

\* lines 223-227 after send (line 216) has completed
process_download_queue_resume ==
    \E item \in sending :
        /\ sending' = sending \ {item}
        /\ StartTransfer(item, ready)
        /\ UNCHANGED <<active_downloads, download_control, download_queue,
                       files, urls, jobs, cancelled_pending,
                       cancelled_inflight>>

\* mutant of on_download_complete: the slot is freed and the queue is not
\* processed again
on_download_complete_NoAdvance ==
    /\ ready # <<>>
    /\ Head(ready).kind = "cb"
    /\ current_download_task' = NoTask
    /\ ready' = Tail(ready)
    /\ UNCHANGED <<active_downloads, download_control, download_queue, tasks,
                   sending, files, urls, jobs, cancelled_pending,
                   cancelled_inflight>>

\* lines 230-238, run by the loop as the done callback of a transfer task
on_download_complete ==
    /\ ready # <<>>
    /\ Head(ready).kind = "cb"
    /\ current_download_task' = NoTask
    /\ ready' = Append(Tail(ready), PdqItem)
    /\ UNCHANGED <<active_downloads, download_control, download_queue, tasks,
                   sending, files, urls, jobs, cancelled_pending,
                   cancelled_inflight>>

\* ------------------------------------------------------ cancel_download
\* mutant of StrikeFromQueue: the queue is left as it is
StrikeFromQueue_Kept(q, id) == q

\* line 517
StrikeFromQueue(q, id) == SelectSeq(q, LAMBDA d : d.download_id # id)

\* mutant of CancelEffect: the cancelled flag is flipped instead of set
CancelEffect_Flip(q, dc, ad, id) ==
    [queue |-> StrikeFromQueue(q, id),
     control |-> IF id \in DOMAIN dc
                 THEN [dc EXCEPT ![id].cancelled = ~dc[id].cancelled]
                 ELSE dc,
     registry |-> IF id \in DOMAIN ad
                  THEN [ad EXCEPT ![id].status = "cancelled"]
                  ELSE ad,
     response |-> "success"]

\* mutant of CancelEffect: a cancel also sets the paused flag
CancelEffect_Pauses(q, dc, ad, id) ==
    [queue |-> StrikeFromQueue(q, id),
     control |-> IF id \in DOMAIN dc
                 THEN [dc EXCEPT ![id].cancelled = TRUE, ![id].paused = TRUE]
                 ELSE dc,
     registry |-> IF id \in DOMAIN ad
                  THEN [ad EXCEPT ![id].status = "cancelled"]
                  ELSE ad,
     response |-> "success"]

\* lines 516-531: what a cancel of id makes of the queue, the control
\* entries and the registry, and its response
CancelEffect(q, dc, ad, id) ==
    [queue |-> StrikeFromQueue(q, id),
     control |-> IF id \in DOMAIN dc
                 THEN [dc EXCEPT ![id].cancelled = TRUE]
                 ELSE dc,
     registry |-> IF id \in DOMAIN ad
                  THEN [ad EXCEPT ![id].status = "cancelled"]
                  ELSE ad,
     response |-> "success"]

\* lines 516-525
cancel_download(id) ==
    LET r == CancelEffect(download_queue, download_control, active_downloads, id)
    IN  /\ download_queue' = r.queue
        /\ download_control' = r.control
        /\ active_downloads' = r.registry
    /\ cancelled_pending' = cancelled_pending \cup
           {download_queue[k].job : k \in
               {k \in 1..Len(download_queue) : download_queue[k].download_id = id}}
    /\ cancelled_inflight' = cancelled_inflight \cup
           {h \in InFlight : JobId(h) = id}
    /\ UNCHANGED <<current_download_task, tasks, ready, sending, files, urls,
                   jobs>>

\* -------------------------------------------------------- download_file
\* The registry, the control entries, the task frames, the ready queue and
\* the files as one value, which the steps of download_file transform.
Cur == [ad |-> active_downloads, dc |-> download_control, ts |-> tasks,
        rdy |-> ready, fs |-> files]
Apply(s) ==
    /\ active_downloads' = s.ad
    /\ download_control' = s.dc
    /\ tasks' = s.ts
    /\ ready' = s.rdy
    /\ files' = s.fs

\* the coroutine of task h returns: the loop schedules its done callback,
\* registered on line 227
Finish(s, h) ==
    [s EXCEPT !.ts[h].pc = "done", !.rdy = Append(s.rdy, CbItem(h))]

\* lines 387-389
ExceptCleanup(s, h) ==
    Finish([s EXCEPT !.dc = Del(s.dc, s.ts[h].id)], h)

\* lines 377-389: the except handler, up to the end or to the suspension in
\* send (line 382)
Except(s, h, msg, suspend) ==
    LET id == s.ts[h].id
        s1 == [s EXCEPT !.ad[id].status = "error", !.ad[id].error = msg]
    IN  IF suspend THEN [s1 EXCEPT !.ts[h].pc = "esend"]
        ELSE ExceptCleanup(s1, h)

\* lines 374-375, and the except handler when the del raises KeyError
Cleanup(s, h, suspend) ==
    LET id == s.ts[h].id
    IN  IF id \in DOMAIN s.dc
        THEN Finish([s EXCEPT !.dc = Del(s.dc, id)], h)
        ELSE Except(s, h, "KeyError", suspend)

\* lines 356-375: finalization once the fetchers have returned, up to the
\* end or to the suspension in send (line 366)
Finalize(s, h, suspend) ==
    LET id == s.ts[h].id
    IN  IF id \notin DOMAIN s.dc THEN Except(s, h, "KeyError", suspend)
        ELSE IF s.dc[id].cancelled
        THEN IF id \notin DOMAIN s.fs
             THEN Except(s, h, "FileNotFoundError", suspend)
             ELSE Finish([s EXCEPT !.fs = Del(s.fs, id),
                                   !.ts = Unlinked(s.ts, id)], h)
        ELSE LET s1 == [s EXCEPT !.ad[id].status = "completed",
                                 !.ad[id].progress = 10000,
                                 !.ts[h].completes = @ + 1]
             IN  IF suspend THEN [s1 EXCEPT !.ts[h].pc = "csend"]
                 ELSE Cleanup(s1, h, FALSE)

\* lines 332-337: the byte range of chunk i
ChunkStart(i, total_size) == i * (total_size \div NUM_CONNECTIONS)
\* mutant of ChunkEnd: the last chunk is as long as the others
ChunkEnd_NoRemainder(i, total_size) ==
    ChunkStart(i, total_size) + (total_size \div NUM_CONNECTIONS) - 1

ChunkEnd(i, total_size) ==
    IF i < NUM_CONNECTIONS - 1
    THEN ChunkStart(i, total_size) + (total_size \div NUM_CONNECTIONS) - 1
    ELSE total_size - 1

\* lines 335-341 and 392-400: one fetcher per chunk, its request issued
ChunkTasks(total_size) ==
    [i \in 0..(NUM_CONNECTIONS - 1) |->
        [pc |-> "req", start |-> ChunkStart(i, total_size),
         end |-> ChunkEnd(i, total_size), body |-> 0, written |-> 0,
         linked |-> FALSE, reported |-> FALSE]]

\* line 328
UseMultiConnection(supports_range, total_size) ==
    supports_range /\ total_size > CHUNK_SIZE

\* lines 314-354, total_size # 0: preallocation of the file, then the
\* fetchers are started (multi-connection) or the whole file is requested
Transfer(s, h, total_size, supports_range, suspend) ==
    LET id == s.ts[h].id
        created == [s EXCEPT !.fs = Put(s.fs, id, 0),
                             !.ts[h].total_size = total_size,
                             !.ts[h].supports_range = supports_range]
    IN  IF total_size - 1 < 0
        THEN Except(created, h, "OSError", suspend)
        ELSE LET s1 == [created EXCEPT !.fs[id] = total_size,
                                       !.ad[id].total = total_size,
                                       !.ad[id].downloaded = 0]
             IN  IF UseMultiConnection(supports_range, total_size)
                 THEN [s1 EXCEPT !.ts[h].pc = "gather",
                                 !.ts[h].chunks = ChunkTasks(total_size)]
                 ELSE [s1 EXCEPT !.ts[h].pc = "sreq"]

\* what the server may answer to the HEAD request (line 286)
HeadResponses(id) ==
    {[ok |-> FALSE, length |-> 0, ranges |-> FALSE]} \cup
    {[ok |-> TRUE, length |-> l, ranges |-> r] :
        l \in {0, urls[id].size}, r \in {FALSE, urls[id].ranges}}

\* what the server may answer to GET with Range: bytes=0-0 (line 298); the
\* total of a content-range header is whatever int() accepts
GarbageTotal == -1
ProbeResponses(id) ==
    {[ok |-> FALSE, has_range |-> FALSE, range_total |-> 0, length |-> 0]} \cup
    {[ok |-> TRUE, has_range |-> FALSE, range_total |-> 0, length |-> l] :
        l \in {0, urls[id].size}} \cup
    {[ok |-> TRUE, has_range |-> TRUE, range_total |-> t, length |-> 1] :
        t \in {urls[id].size, GarbageTotal}}

\* lines 263-286: the first step of the task, taken from the ready queue
download_file_start ==
    /\ ready # <<>>
    /\ Head(ready).kind = "dl"
    /\ LET h == Head(ready).task
           id == tasks[h].id
       IN  /\ download_control' = Put(download_control, id,
                  [paused |-> FALSE, cancelled |-> FALSE, total_downloaded |-> 0])
           /\ tasks' = [tasks EXCEPT ![h].pc = "head"]
    /\ ready' = Tail(ready)
    /\ UNCHANGED <<active_downloads, download_queue, current_download_task,
                   sending, files, urls, jobs, cancelled_pending,
                   cancelled_inflight>>

\* lines 286-354: the answer to HEAD arrives
download_file_head(h, resp, suspend) ==
    /\ tasks[h].pc = "head"
    /\ resp \in HeadResponses(tasks[h].id)
    /\ LET total_size == IF resp.ok THEN resp.length ELSE 0
           supports_range == resp.ok /\ resp.ranges
       IN  IF total_size = 0
           THEN /\ ~suspend
                /\ Apply([Cur EXCEPT !.ts[h].pc = "probe",
                                     !.ts[h].supports_range = supports_range])
           ELSE Apply(Transfer(Cur, h, total_size, supports_range, suspend))
    /\ UNCHANGED <<download_queue, current_download_task, sending, urls, jobs,
                   cancelled_pending, cancelled_inflight>>

\* mutant of download_file_probe: the check of line 314 is missing
download_file_probe_Unchecked(h, resp, suspend) ==
    /\ tasks[h].pc = "probe"
    /\ resp \in ProbeResponses(tasks[h].id)
    /\ LET from_range == IF resp.ok /\ resp.has_range THEN resp.range_total ELSE 0
           supports_range == tasks[h].supports_range \/ (resp.ok /\ resp.has_range)
           total_size == IF resp.ok /\ from_range = 0 THEN resp.length
                         ELSE from_range
       IN  Apply(Transfer(Cur, h, total_size, supports_range, suspend))
    /\ UNCHANGED <<download_queue, current_download_task, sending, urls, jobs,
                   cancelled_pending, cancelled_inflight>>

\* lines 298-354: the answer to GET bytes=0-0 arrives
download_file_probe(h, resp, suspend) ==
    /\ tasks[h].pc = "probe"
    /\ resp \in ProbeResponses(tasks[h].id)
    /\ LET from_range == IF resp.ok /\ resp.has_range THEN resp.range_total ELSE 0
           supports_range == tasks[h].supports_range \/ (resp.ok /\ resp.has_range)
           total_size == IF resp.ok /\ from_range = 0 THEN resp.length
                         ELSE from_range
       IN  IF total_size = 0
           THEN Apply(Except(Cur, h, "Could not determine file size", suspend))
           ELSE Apply(Transfer(Cur, h, total_size, supports_range, suspend))
    /\ UNCHANGED <<download_queue, current_download_task, sending, urls, jobs,
                   cancelled_pending, cancelled_inflight>>

\* lines 387-389 after send (line 382) has completed
download_file_error_sent(h) ==
    /\ tasks[h].pc = "esend"
    /\ Apply(ExceptCleanup(Cur, h))
    /\ UNCHANGED <<download_queue, current_download_task, sending, urls, jobs,
                   cancelled_pending, cancelled_inflight>>

\* lines 372-375 after send (line 366) has completed
download_file_complete_sent(h, suspend) ==
    /\ tasks[h].pc = "csend"
    /\ Apply(Cleanup(Cur, h, suspend))
    /\ UNCHANGED <<download_queue, current_download_task, sending, urls, jobs,
                   cancelled_pending, cancelled_inflight>>

\* ------------------------------------------------------------ fetchers
\* download_control.get(download_id, {}).get(flag, False), lines 409-413
\* and 458-462
ControlFlag(dc, id, flag) == id \in DOMAIN dc /\ dc[id][flag]

\* the sizes in which the next piece of a body may arrive from
\* iter_chunked(CHUNK_SIZE): all that is left, or half of it as first piece
PieceSizes(rest, written) ==
    {n \in {Min(rest, CHUNK_SIZE)} \cup
           (IF written = 0 THEN {rest \div 2} ELSE {}) : n >= 1}

\* the body of a chunk request arrives in pieces of CHUNK_SIZE
ChunkPieceSizes(rest) == {n \in {Min(rest, CHUNK_SIZE)} : n >= 1}

\* f.write(chunk) through a handle at offset pos: the file the path names
\* grows when the handle is still linked to it
Written(fs, id, linked, pos, n) ==
    IF linked /\ id \in DOMAIN fs
    THEN [fs EXCEPT ![id] = Max(fs[id], pos + n)]
    ELSE fs

\* lines 451-455: the answer to the GET of the whole file arrives
download_single_connection_response(h, ok, suspend) ==
    /\ tasks[h].pc = "sreq"
    /\ LET id == tasks[h].id
       IN  IF ~ok
           THEN Apply(Except(Cur, h, "HTTP", suspend))
           ELSE /\ ~suspend
                /\ Apply([Cur EXCEPT
                       !.fs = Put(files, id, 0),
                       !.ts[h].pc = "sbody",
                       !.ts[h].stream = [NoFetch EXCEPT
                            !.pc = "body", !.body = urls[id].size,
                            !.linked = TRUE]])
    /\ UNCHANGED <<download_queue, current_download_task, sending, urls, jobs,
                   cancelled_pending, cancelled_inflight>>

\* lines 456-478: a piece of n bytes of the body arrives
download_single_connection_piece(h, n, suspend) ==
    /\ tasks[h].pc = "sbody"
    /\ LET id == tasks[h].id
           f == tasks[h].stream
           downloaded_size == f.written + n
       IN  /\ n \in PieceSizes(f.body - f.written, f.written)
           /\ ~ControlFlag(download_control, id, "paused")
           /\ IF ControlFlag(download_control, id, "cancelled")
              THEN Apply(Finalize(Cur, h, suspend))
              ELSE Apply([Cur EXCEPT
                       !.fs = Written(files, id, f.linked, f.written, n),
                       !.ts[h].stream.written = downloaded_size,
                       !.ts[h].pc = IF suspend THEN "ssend" ELSE "sbody",
                       !.ad[id].progress =
                            Round2(downloaded_size, tasks[h].total_size),
                       !.ad[id].downloaded = downloaded_size])
    /\ UNCHANGED <<download_queue, current_download_task, sending, urls, jobs,
                   cancelled_pending, cancelled_inflight>>

\* line 456 after send (line 473) has completed
download_single_connection_sent(h) ==
    /\ tasks[h].pc = "ssend"
    /\ tasks' = [tasks EXCEPT ![h].pc = "sbody"]
    /\ UNCHANGED <<active_downloads, download_control, download_queue,
                   current_download_task, ready, sending, files, urls, jobs,
                   cancelled_pending, cancelled_inflight>>

\* line 456: the body has ended, and lines 356-375
download_single_connection_end(h, suspend) ==
    /\ tasks[h].pc = "sbody"
    /\ tasks[h].stream.written = tasks[h].stream.body
    /\ Apply(Finalize(Cur, h, suspend))
    /\ UNCHANGED <<download_queue, current_download_task, sending, urls, jobs,
                   cancelled_pending, cancelled_inflight>>

\* the chunk requests of task h being answered, and those that failed
Served(h) == {i \in DOMAIN tasks[h].chunks : tasks[h].chunks[i].pc \in {"body", "send"}}
Failed(h) == {i \in DOMAIN tasks[h].chunks : tasks[h].chunks[i].pc = "exc"}

\* The server takes the chunk requests in the order they were issued (line
\* 335), answers at most MaxParallel of them at a time, fails at most
\* MaxFaults of them and ignores the range of at most MaxFullBodies of them.
NextServed(h, i) ==
    /\ \A j \in DOMAIN tasks[h].chunks : j < i => tasks[h].chunks[j].pc # "req"
    /\ Cardinality(Served(h)) < MaxParallel

\* a fetcher that has returned or raised: its frame is gone; the number of
\* bytes it wrote is kept
Returned(f, pc) ==
    [NoFetch EXCEPT !.pc = pc, !.start = f.start, !.end = f.end,
                    !.written = f.written]

\* lines 400-405: the answer to the ranged GET of chunk i arrives: 206 with
\* the range asked for, 200 with the whole resource, or a failure
download_chunk_with_progress_response(h, i, status) ==
    /\ tasks[h].pc = "gather"
    /\ i \in DOMAIN tasks[h].chunks
    /\ tasks[h].chunks[i].pc = "req"
    /\ LET id == tasks[h].id
           f == tasks[h].chunks[i]
       IN  /\ NextServed(h, i)
           /\ IF status \notin {200, 206}
              THEN /\ Cardinality(Failed(h)) < MaxFaults
                   /\ tasks' = [tasks EXCEPT ![h].chunks[i] = Returned(f, "exc")]
              ELSE IF id \notin DOMAIN files
              THEN tasks' = [tasks EXCEPT ![h].chunks[i] = Returned(f, "exc")]
              ELSE (status = 200 => tasks[h].full < MaxFullBodies) /\ tasks' = [tasks EXCEPT ![h].chunks[i] = [f EXCEPT
                       !.pc = "body",
                       !.body = IF status = 206 THEN f.end - f.start + 1
                                ELSE urls[id].size,
                       !.linked = TRUE],
                       ![h].full = IF status = 200 THEN @ + 1 ELSE @]
    /\ UNCHANGED <<active_downloads, download_control, download_queue,
                   current_download_task, ready, sending, files, urls, jobs,
                   cancelled_pending, cancelled_inflight>>

\* lines 407-440: a piece of n bytes of the body of chunk i arrives; `due`
\* says whether 100 ms have passed since the last report
download_chunk_with_progress_piece(h, i, n, due, suspend) ==
    /\ tasks[h].pc = "gather"
    /\ i \in DOMAIN tasks[h].chunks
    /\ tasks[h].chunks[i].pc = "body"
    /\ LET id == tasks[h].id
           f == tasks[h].chunks[i]
           reports == i = 0 /\ (due \/ ~f.reported)
       IN  /\ n \in ChunkPieceSizes(f.body - f.written)
           /\ ~ControlFlag(download_control, id, "paused")
           /\ IF ControlFlag(download_control, id, "cancelled")
              THEN /\ ~due /\ ~suspend
                   /\ Apply([Cur EXCEPT !.ts[h].chunks[i] = Returned(f, "ret")])
              ELSE IF id \notin DOMAIN download_control
              THEN /\ ~due /\ ~suspend
                   /\ Apply([Cur EXCEPT
                          !.fs = Written(files, id, f.linked, f.start + f.written, n),
                          !.ts[h].chunks[i] =
                               Returned([f EXCEPT !.written = f.written + n], "exc")])
              ELSE LET total_downloaded ==
                           download_control[id].total_downloaded + n
                       s1 == [Cur EXCEPT
                          !.fs = Written(files, id, f.linked, f.start + f.written, n),
                          !.ts[h].chunks[i].written = f.written + n,
                          !.dc[id].total_downloaded = total_downloaded]
                   IN  IF reports
                       THEN Apply([s1 EXCEPT
                              !.ad[id].progress =
                                   Round2(total_downloaded, tasks[h].total_size),
                              !.ad[id].downloaded = total_downloaded,
                              !.ts[h].chunks[i].reported = TRUE,
                              !.ts[h].chunks[i].pc =
                                   IF suspend THEN "send" ELSE "body"])
                       ELSE /\ ~suspend /\ (i = 0 \/ ~due)
                            /\ Apply(s1)
    /\ UNCHANGED <<download_queue, current_download_task, sending, urls, jobs,
                   cancelled_pending, cancelled_inflight>>

\* line 407 after send (line 433) has completed
download_chunk_with_progress_sent(h, i) ==
    /\ tasks[h].pc = "gather"
    /\ i \in DOMAIN tasks[h].chunks
    /\ tasks[h].chunks[i].pc = "send"
    /\ tasks' = [tasks EXCEPT ![h].chunks[i].pc = "body"]
    /\ UNCHANGED <<active_downloads, download_control, download_queue,
                   current_download_task, ready, sending, files, urls, jobs,
                   cancelled_pending, cancelled_inflight>>

\* line 407: the body of chunk i has ended, the fetcher returns
download_chunk_with_progress_end(h, i) ==
    /\ tasks[h].pc = "gather"
    /\ i \in DOMAIN tasks[h].chunks
    /\ tasks[h].chunks[i].pc = "body"
    /\ tasks[h].chunks[i].written = tasks[h].chunks[i].body
    /\ tasks' = [tasks EXCEPT ![h].chunks[i] = Returned(tasks[h].chunks[i], "ret")]
    /\ UNCHANGED <<active_downloads, download_control, download_queue,
                   current_download_task, ready, sending, files, urls, jobs,
                   cancelled_pending, cancelled_inflight>>

\* mutant of download_file_gathered: the results of gather are not inspected
download_file_gathered_Unchecked(h, suspend) ==
    /\ tasks[h].pc = "gather"
    /\ \A i \in DOMAIN tasks[h].chunks : tasks[h].chunks[i].pc \in {"ret", "exc"}
    /\ Apply(Finalize(Cur, h, suspend))
    /\ UNCHANGED <<download_queue, current_download_task, sending, urls, jobs,
                   cancelled_pending, cancelled_inflight>>

\* lines 344-375: every fetcher has finished, gather returns
download_file_gathered(h, suspend) ==
    /\ tasks[h].pc = "gather"
    /\ \A i \in DOMAIN tasks[h].chunks : tasks[h].chunks[i].pc \in {"ret", "exc"}
    /\ IF \E i \in DOMAIN tasks[h].chunks : tasks[h].chunks[i].pc = "exc"
       THEN Apply(Except(Cur, h, "chunk", suspend))
       ELSE Apply(Finalize(Cur, h, suspend))
    /\ UNCHANGED <<download_queue, current_download_task, sending, urls, jobs,
                   cancelled_pending, cancelled_inflight>>

\* ------------------------------------------------------- specifications
TypeInit ==
    /\ active_downloads = <<>>
    /\ download_control = <<>>
    /\ download_queue = <<>>
    /\ current_download_task = NoTask
    /\ tasks = <<>>
    /\ ready = <<>>
    /\ sending = {}
    /\ files = <<>>
    /\ jobs = <<>>
    /\ cancelled_pending = {}
    /\ cancelled_inflight = {}

\* the queue with small resources: every transfer is a single stream
Init ==
    /\ TypeInit
    /\ urls = [id \in Ids |-> [size |-> SmallSize, ranges |-> TRUE]]

Requests ==
    \/ \E id \in Ids, override \in BOOLEAN :
          Len(jobs) < MaxJobs /\ start_download(id, override)
    \/ \E id \in Ids : cancel_download(id)

Loop ==
    \/ process_download_queue
    \/ process_download_queue_resume
    \/ on_download_complete
    \/ download_file_start

Discovery ==
    \/ \E h \in DOMAIN tasks, suspend \in BOOLEAN :
          \E resp \in HeadResponses(tasks[h].id) : download_file_head(h, resp, suspend)
    \/ \E h \in DOMAIN tasks, suspend \in BOOLEAN :
          \E resp \in ProbeResponses(tasks[h].id) : download_file_probe(h, resp, suspend)
    \/ \E h \in DOMAIN tasks : download_file_error_sent(h)
    \/ \E h \in DOMAIN tasks, suspend \in BOOLEAN : download_file_complete_sent(h, suspend)

SingleStream ==
    \/ \E h \in DOMAIN tasks, ok \in BOOLEAN, suspend \in BOOLEAN :
          download_single_connection_response(h, ok, suspend)
    \/ \E h \in DOMAIN tasks, suspend \in BOOLEAN :
          \E n \in PieceSizes(tasks[h].stream.body - tasks[h].stream.written,
                              tasks[h].stream.written) :
              download_single_connection_piece(h, n, suspend)
    \/ \E h \in DOMAIN tasks : download_single_connection_sent(h)
    \/ \E h \in DOMAIN tasks, suspend \in BOOLEAN :
          download_single_connection_end(h, suspend)

Next == Requests \/ Loop \/ Discovery \/ SingleStream

Spec == Init /\ [][Next]_vars

\* one transfer of a large resource from a server that serves byte ranges
InitXfer ==
    /\ TypeInit
    /\ urls = [id \in Ids |-> [size |-> CHUNK_SIZE + MaxExtra, ranges |-> TRUE]]

RequestsXfer ==
    \/ \E override \in BOOLEAN :
          Len(jobs) < MaxXferJobs /\ start_download("a", override)
    \/ \E id \in Ids : cancel_download(id)

Chunks ==
    \/ \E h \in DOMAIN tasks, status \in {200, 206, 500} :
          \E i \in DOMAIN tasks[h].chunks :
              download_chunk_with_progress_response(h, i, status)
    \/ \E h \in DOMAIN tasks, due \in BOOLEAN, suspend \in BOOLEAN :
          \E i \in DOMAIN tasks[h].chunks :
              \E n \in ChunkPieceSizes(tasks[h].chunks[i].body - tasks[h].chunks[i].written) :
                  download_chunk_with_progress_piece(h, i, n, due, suspend)
    \/ \E h \in DOMAIN tasks : \E i \in DOMAIN tasks[h].chunks :
          download_chunk_with_progress_sent(h, i)
    \/ \E h \in DOMAIN tasks : \E i \in DOMAIN tasks[h].chunks :
          download_chunk_with_progress_end(h, i)
    \/ \E h \in DOMAIN tasks, suspend \in BOOLEAN : download_file_gathered(h, suspend)

NextXfer == RequestsXfer \/ Loop \/ Discovery \/ SingleStream \/ Chunks

SpecXfer == InitXfer /\ [][NextXfer]_vars

\* the chunk plans of resources around CHUNK_SIZE: admission and size
\* discovery of one job, up to the start of the fetchers
InitPlan ==
    /\ TypeInit
    /\ \E k \in 0..MaxExtra :
          urls = [id \in Ids |-> [size |-> CHUNK_SIZE + k, ranges |-> TRUE]]

NextPlan ==
    \/ \E override \in BOOLEAN :
          Len(jobs) < MaxXferJobs /\ start_download("a", override)
    \/ process_download_queue
    \/ process_download_queue_resume
    \/ download_file_start
    \/ \E h \in DOMAIN tasks, suspend \in BOOLEAN :
          \E resp \in HeadResponses(tasks[h].id) : download_file_head(h, resp, suspend)
    \/ \E h \in DOMAIN tasks, suspend \in BOOLEAN :
          \E resp \in ProbeResponses(tasks[h].id) : download_file_probe(h, resp, suspend)

SpecPlan == InitPlan /\ [][NextPlan]_vars

\* the queue with every request to start_download, accepted or not
RequestsAdmit ==
    \/ \E req \in StartRequests :
          Len(jobs) < MaxJobs /\ start_download_request(req)
    \/ \E id \in Ids : cancel_download(id)

NextAdmit == RequestsAdmit \/ Loop \/ Discovery \/ SingleStream

SpecAdmit == Init /\ [][NextAdmit]_vars

\* the queue with more admissions, no cancellation, and a server that
\* answers every request in full
RequestsQueue ==
    \E id \in Ids : Len(jobs) < MaxQueueJobs /\ start_download(id, TRUE)

TransfersQueue ==
    \/ \E h \in DOMAIN tasks :
          \E resp \in {r \in HeadResponses(tasks[h].id) : r.ok /\ r.length > 0} :
              download_file_head(h, resp, FALSE)
    \/ \E h \in DOMAIN tasks : download_single_connection_response(h, TRUE, FALSE)
    \/ \E h \in DOMAIN tasks :
          download_single_connection_piece(
              h, tasks[h].stream.body - tasks[h].stream.written, FALSE)
    \/ \E h \in DOMAIN tasks : download_single_connection_end(h, FALSE)

NextQueue == RequestsQueue \/ Loop \/ TransfersQueue

SpecQueue == Init /\ [][NextQueue]_vars

\* the queue under a fair loop and a network that answers: every ready
\* callback is run and every awaited response, piece and send arrives
FairSpec == Spec /\ WF_vars(Loop \/ Discovery \/ SingleStream)

\* --------------------------------------------------------------- claims
Status(id) == active_downloads[id].status
\* the jobs taken from the queue
Dequeued == {d.job : d \in sending} \cup DOMAIN tasks
\* job h is the only admission of its id
Unique(h) == \A c \in 1..Len(jobs) : c # h => jobs[c] # jobs[h]
Cancelled == cancelled_pending \cup cancelled_inflight
Rank(st) == IF st = "queued" THEN 0 ELSE IF st = "downloading" THEN 1 ELSE 2

\* C1: in every reachable state at most one job is in flight, that is,
\* dequeued with status 'downloading' and its download_file task not yet
\* finished.
C1_AtMostOneInFlight ==
    Cardinality({h \in InFlight : Status(JobId(h)) = "downloading"}) <= 1

\* C2: for two jobs admitted A then B under different ids, neither of them
\* cancelled, the step that dequeues B (sets its status to 'downloading')
\* finds A's status terminal.
C2_SecondStartsAfterFirstEnds ==
    [][\A b \in Dequeued' \ Dequeued : \A a \in 1..(b - 1) :
          (Unique(a) /\ Unique(b) /\ {a, b} \cap Cancelled' = {})
              => active_downloads'[jobs[a]].status \in Terminal]_vars

\* C4: a job cancelled while in flight ends with status 'cancelled' and
\* without its output file, once its transfer task has finished.
C4_CancelledInFlightEndsCancelled ==
    \A h \in cancelled_inflight :
        (h \in DOMAIN tasks /\ TaskDone(h) /\ Unique(h))
            => /\ Status(JobId(h)) = "cancelled"
               /\ JobId(h) \notin DOMAIN files

\* C5: cancelling a job that is pending with status 'queued' strikes its
\* descriptor from the queue and sets the status to 'cancelled', changing no
\* other field of any registry entry; the job is never dequeued and no
\* transfer task is created for it.
C5_CancelPending ==
    /\ [][\A j \in cancelled_pending' \ cancelled_pending :
             Status(jobs[j]) = "queued"
                 => /\ \A k \in 1..Len(download_queue') :
                          download_queue'[k].download_id # jobs[j]
                    /\ active_downloads' =
                          [active_downloads EXCEPT ![jobs[j]].status = "cancelled"]]_vars
    /\ [](cancelled_pending \cap Dequeued = {})

\* a job struck from the queue while others stay pending, none started
C5_Witness ==
    /\ cancelled_pending # {}
    /\ \E j \in cancelled_pending : Status(jobs[j]) = "cancelled"
    /\ Len(download_queue) > 0

\* C6: the status of a registry entry never moves backwards along
\* queued -> downloading -> terminal, and a terminal status is changed by
\* no step other than a fresh admission of the id.
C6_StatusForwardOnly ==
    [][\A id \in DOMAIN active_downloads :
          (jobs' = jobs)
              => /\ Rank(active_downloads'[id].status) >= Rank(Status(id))
                 /\ Status(id) \in Terminal
                        => active_downloads'[id].status = Status(id)]_vars

\* C7: the step that ends a transfer task, in each of the three terminal
\* cases, leaves no control entry for its id; at most one control entry
\* exists in every reachable state.
C7_ControlReleased ==
    /\ [][\A h \in DOMAIN tasks :
             (tasks[h].pc # "done" /\ tasks'[h].pc = "done")
                 => tasks[h].id \notin DOMAIN download_control']_vars
    /\ [](Cardinality(DOMAIN download_control) <= 1)

\* C10: every registry entry that has both fields has downloaded <= total.
C10_DownloadedAtMostTotal ==
    \A id \in DOMAIN active_downloads :
        (active_downloads[id].downloaded # Absent /\ active_downloads[id].total # Absent)
            => active_downloads[id].downloaded <= active_downloads[id].total

InQueue(j) == \E k \in 1..Len(download_queue) : download_queue[k].job = j

\* C3: a non-empty queue always has a transfer running or pending start,
\* or a callback or queue run waiting in the loop; and under fairness every
\* job in the queue leaves it, dequeued and started or struck by a cancel.
C3_QueueAdvances ==
    /\ [](Len(download_queue) > 0
            => \/ InFlight # {}
               \/ \E k \in 1..Len(ready) : ready[k].kind \in {"pdq", "cb"})
    /\ \A j \in 1..MaxJobs :
          InQueue(j) ~> (j \in Dequeued \cup cancelled_pending)

\* a job dequeued after the transfer before it ended in error
C3_Witness ==
    \E h \in DOMAIN tasks : \E j \in Dequeued :
        /\ j > h
        /\ TaskDone(h)
        /\ Status(jobs[h]) = "error"
        /\ jobs[j] # jobs[h]
        /\ h \notin Cancelled /\ j \notin Cancelled

RECURSIVE SumOfLengths(_, _)
SumOfLengths(c, i) ==
    IF i < 0 THEN 0 ELSE (c[i].end - c[i].start + 1) + SumOfLengths(c, i - 1)

\* C8: whenever the multi-connection path is taken (supports_range and
\* total_size > CHUNK_SIZE) the plan has NUM_CONNECTIONS chunks, starts at
\* 0, is contiguous, ends at total_size - 1, every chunk but the last has
\* floor(total_size / N) bytes, the last has the rest, and the lengths sum
\* to total_size.
C8_ChunkPlan ==
    \A h \in DOMAIN tasks :
        tasks[h].pc = "gather" =>
            LET c == tasks[h].chunks
                t == tasks[h].total_size
                n == NUM_CONNECTIONS
            IN  /\ tasks[h].supports_range /\ t > CHUNK_SIZE
                /\ DOMAIN c = 0..(n - 1)
                /\ c[0].start = 0
                /\ \A i \in 0..(n - 2) :
                      /\ c[i].end + 1 = c[i + 1].start
                      /\ c[i].end - c[i].start + 1 = t \div n
                /\ c[n - 1].end = t - 1
                /\ c[n - 1].end - c[n - 1].start + 1 = t - (n - 1) * (t \div n)
                /\ SumOfLengths(c, n - 1) = t

\* a plan whose last chunk absorbs a remainder
C8_Witness ==
    \E h \in DOMAIN tasks :
        /\ tasks[h].pc = "gather"
        /\ tasks[h].total_size % NUM_CONNECTIONS = 5

\* C9: a task is past discovery (requesting or streaming the body) only
\* with total_size > 0; the step in which neither HEAD nor the ranged GET
\* has yielded a size sets the status to 'error', creates no file and starts
\* no fetcher; and every step that ends a task schedules its done callback,
\* which processes the queue.
C9_SizeUnknownIsFatal ==
    /\ [](\A h \in DOMAIN tasks :
             tasks[h].pc \in {"sreq", "sbody", "ssend", "gather"}
                 => tasks[h].total_size > 0)
    /\ [][\A h \in DOMAIN tasks :
             (tasks[h].pc = "probe" /\ tasks'[h].pc # "probe"
                  /\ tasks'[h].total_size = 0)
                 => /\ active_downloads'[tasks[h].id].status = "error"
                    /\ files' = files
                    /\ tasks'[h].pc \in {"esend", "done"}
                    /\ tasks'[h].stream = NoFetch
                    /\ tasks'[h].chunks = <<>>]_vars
    /\ [][\A h \in DOMAIN tasks :
             (tasks[h].pc # "done" /\ tasks'[h].pc = "done")
                 => ready'[Len(ready')] = CbItem(h)]_vars

\* a task that ended for want of a size: status error, no file
C9_Witness ==
    \E h \in DOMAIN tasks :
        /\ TaskDone(h)
        /\ tasks[h].total_size = 0
        /\ Status(tasks[h].id) = "error"
        /\ active_downloads[tasks[h].id].error = "Could not determine file size"
        /\ tasks[h].id \notin DOMAIN files

\* C11: every registry entry with a known total has
\* progress = round(downloaded / total * 100, 2) of its own downloaded and
\* total fields, also once it is marked completed.
C11_ProgressIsRatio ==
    \A id \in DOMAIN active_downloads :
        LET e == active_downloads[id]
        IN  (e.total # Absent /\ e.total > 0 /\ e.downloaded # Absent)
                => e.progress = Round2(e.downloaded, e.total)

\* C12: while a job, the only admission of its id, is dequeued and its
\* status is not terminal, no step lowers the progress or the downloaded
\* field of its registry entry.
C12_ProgressNeverDecreases ==
    [][\A h \in Dequeued :
          (Unique(h) /\ jobs' = jobs /\ Status(jobs[h]) = "downloading")
              => /\ active_downloads'[jobs[h]].progress
                        >= active_downloads[jobs[h]].progress
                 /\ active_downloads'[jobs[h]].downloaded
                        >= active_downloads[jobs[h]].downloaded]_vars

\* C13: a chunk fetch that has failed is never started again; a job with a
\* failed chunk is never 'completed'; the step in which gather returns with
\* a failed chunk, the job not cancelled, sets status 'error' with a message
\* and leaves the file as it is; and the job, unless cancelled afterwards,
\* stays in status 'error'.
C13_ChunkFailureFailsJob ==
    /\ [][\A h \in DOMAIN tasks : \A i \in DOMAIN tasks[h].chunks :
             tasks[h].chunks[i].pc = "exc" => tasks'[h].chunks[i].pc = "exc"]_vars
    /\ [](\A h \in DOMAIN tasks :
             (Unique(h) /\ Failed(h) # {}) => Status(tasks[h].id) # "completed")
    /\ [][\A h \in DOMAIN tasks :
             (tasks[h].pc = "gather" /\ tasks'[h].pc # "gather"
                  /\ Failed(h) # {} /\ h \notin cancelled_inflight)
                 => /\ active_downloads'[tasks[h].id].status = "error"
                    /\ active_downloads'[tasks[h].id].error # "none"
                    /\ files' = files]_vars
    /\ [](\A h \in DOMAIN tasks :
             (Unique(h) /\ TaskDone(h) /\ Failed(h) # {}
                  /\ Status(tasks[h].id) # "cancelled")
                 => /\ Status(tasks[h].id) = "error"
                    /\ active_downloads[tasks[h].id].error # "none")

\* a transfer ended by a failed chunk: status error, the file still on disk
C13_Witness ==
    \E h \in DOMAIN tasks :
        /\ TaskDone(h)
        /\ Failed(h) # {}
        /\ h \notin Cancelled
        /\ Status(tasks[h].id) = "error"
        /\ tasks[h].id \in DOMAIN files
        /\ \E i \in DOMAIN tasks[h].chunks : tasks[h].chunks[i].pc = "ret"

\* the requests the claim C14 says are refused: a missing parameter, a
\* filename with '..', a backslash, a leading '/' or '~', a save path that
\* is no category, or an existing destination without override
Invalid ==
    {req \in StartRequests :
        \/ req.url = "" \/ req.save_path = "" \/ req.filename = <<>>
        \/ Contains(req.filename, <<".", ".">>)
        \/ Contains(req.filename, <<"\\">>)
        \/ StartsWith(req.filename, <<"/">>)
        \/ StartsWith(req.filename, <<"~">>)
        \/ req.save_path \notin DOMAIN FolderNamesAndPaths}
Overwriting == {req \in StartRequests : SafeFilename(req.filename) = <<"a">>}
Refused(req) ==
    \/ req \in Invalid
    \/ req \in Overwriting /\ "a" \in DOMAIN files /\ ~req.override

\* C14: a step that changes the registry, the queue, the slot, the files,
\* the tasks or the callbacks waiting in the loop is never the step of the
\* handler for a refused StartDownload request.
C14_RefusedStartChangesNothing ==
    [][\A req \in StartRequests :
          Refused(req) => ~start_download_request(req)]_vars

\* a state in which a request is answered with the conflict response while
\* jobs are pending and a transfer has run
C14_Witness ==
    /\ "a" \in DOMAIN files
    /\ Len(jobs) = 1
    /\ \E h \in DOMAIN tasks : TaskDone(h) /\ Status(tasks[h].id) = "completed"

\* C15: in every reachable state and for every id, pending, in flight or
\* unknown, a second CancelDownload(id) right after the first leaves the
\* queue, the registry and the control entries as the first left them, and
\* both calls answer success.
C15_CancelIdempotent ==
    \A id \in Ids :
        LET once == CancelEffect(download_queue, download_control,
                                 active_downloads, id)
            twice == CancelEffect(once.queue, once.control, once.registry, id)
        IN  /\ twice.queue = once.queue
            /\ twice.control = once.control
            /\ twice.registry = once.registry
            /\ once.response = "success"
            /\ twice.response = "success"

\* a cancelled transfer still in flight, another job pending, and an id that
\* no request has named
C15_Witness ==
    /\ \E id \in DOMAIN download_control : download_control[id].cancelled
    /\ Len(download_queue) > 0
    /\ \E id \in Ids : id \notin DOMAIN active_downloads

\* a download_file task exists and has not finished
Running == \E h \in DOMAIN tasks : ~TaskDone(h)

\* C17: a job is dequeued only when every job admitted before it has been
\* dequeued or struck by a cancel; a run of process_download_queue that
\* changes the queue removes its head and dequeues that job; and a run that
\* finds a transfer running or the queue empty changes nothing but the
\* loop's list of callbacks.
C17_HeadFirst ==
    /\ [][\A b \in Dequeued' \ Dequeued : \A a \in 1..(b - 1) :
             a \in Dequeued \cup cancelled_pending]_vars
    /\ [][(process_download_queue /\ download_queue' # download_queue)
             => /\ download_queue' = Tail(download_queue)
                /\ Dequeued' = Dequeued \cup {Head(download_queue).job}]_vars
    /\ [][(process_download_queue /\ (Running \/ Len(download_queue) = 0))
             => UNCHANGED <<active_downloads, download_queue,
                            current_download_task, tasks, sending>>]_vars

\* the bytes the fetchers of task h have written to the file
RECURSIVE ChunkBytes(_, _)
ChunkBytes(c, i) == IF i < 0 THEN 0 ELSE c[i].written + ChunkBytes(c, i - 1)
BytesWritten(h) ==
    tasks[h].stream.written
        + (IF tasks[h].chunks = <<>> THEN 0
           ELSE ChunkBytes(tasks[h].chunks, NUM_CONNECTIONS - 1))
\* every fetcher of task h has returned or raised
AllReturned(h) ==
    \/ tasks[h].pc \in {"csend", "esend", "done"}
    \/ /\ tasks[h].pc = "gather"
       /\ \A i \in DOMAIN tasks[h].chunks : tasks[h].chunks[i].pc \in {"ret", "exc"}

\* C18: once every fetcher of a transfer has returned, and while its
\* control entry exists, total_downloaded equals the number of bytes the
\* fetchers wrote, in multi-chunk and in single-stream mode.
C18_CounterIsBytesWritten ==
    \A h \in DOMAIN tasks :
        (Unique(h) /\ AllReturned(h) /\ tasks[h].id \in DOMAIN download_control)
            => download_control[tasks[h].id].total_downloaded = BytesWritten(h)

\* the fetchers of task h have been started and download_file awaits them
Fetching(h) == tasks[h].pc \in {"sreq", "sbody", "ssend", "gather"}
\* the cancelled flag of the in-flight job of task h is set
CancelSeen(h) ==
    /\ Unique(h)
    /\ Fetching(h)
    /\ ControlFlag(download_control, tasks[h].id, "cancelled")

\* C19: once the cancelled flag of an in-flight job is set, its fetchers
\* write nothing more to the file and none of them raises: no chunk fetcher
\* ends with an exception and the single stream does not end in the except
\* handler with its HTTP error.
C19_CancelledFetchersStop ==
    [][\A h \in DOMAIN tasks :
          CancelSeen(h) =>
              /\ BytesWritten(h)' = BytesWritten(h)
              /\ \A i \in DOMAIN tasks[h].chunks :
                    tasks[h].chunks[i].pc # "exc" => tasks'[h].chunks[i].pc # "exc"
              /\ tasks[h].pc \in {"sreq", "sbody", "ssend"} =>
                    active_downloads'[tasks[h].id].error # "HTTP"]_vars

\* the file offsets chunk fetcher f has written: it seeks to start and
\* writes the pieces one after the other
Region(f) == IF f.written = 0 THEN {} ELSE <<f.start, f.start + f.written - 1>>

\* C20: in a multi-chunk transfer every fetcher writes only inside its own
\* range [start, end], whether the answer was 200 or 206: the regions of
\* two fetchers do not overlap and nothing is written at or beyond total_size.
C20_WritesInsideOwnRange ==
    \A h \in DOMAIN tasks :
        \A i \in DOMAIN tasks[h].chunks :
            LET f == tasks[h].chunks[i]
            IN  f.written > 0 =>
                  /\ f.start + f.written - 1 <= f.end
                  /\ f.start + f.written <= tasks[h].total_size
                  /\ \A j \in DOMAIN tasks[h].chunks :
                        LET g == tasks[h].chunks[j]
                        IN  (j # i /\ g.written > 0) =>
                              \/ Region(f)[2] < Region(g)[1]
                              \/ Region(g)[2] < Region(f)[1]

\* C21: a finished transfer has emitted exactly one 'complete' event when
\* the registry status of its job is 'completed' and none otherwise, and the
\* event is emitted only by the step that finalizes the transfer once every
\* fetcher has returned.
C21_OneCompleteIffCompleted ==
    /\ [](\A h \in DOMAIN tasks :
            (Unique(h) /\ TaskDone(h)) =>
                /\ tasks[h].completes <= 1
                /\ tasks[h].completes = 1 <=> Status(tasks[h].id) = "completed")
    /\ [][\A h \in DOMAIN tasks :
            tasks'[h].completes # tasks[h].completes =>
                \/ /\ tasks[h].pc = "gather"
                   /\ \A i \in DOMAIN tasks[h].chunks : tasks[h].chunks[i].pc = "ret"
                \/ /\ tasks[h].pc = "sbody"
                   /\ tasks[h].stream.written = tasks[h].stream.body]_vars

\* the ids of the jobs pending in the queue
Pending == {download_queue[k].download_id : k \in DOMAIN download_queue}

\* C22: at most one job per id is live: no id is twice in the pending
\* queue, no id is both pending and in flight, and the registry entry of a
\* pending job (status 'queued') is left alone by every step that is neither
\* an admission, a cancel nor a dequeue.
C22_OneLiveJobPerId ==
    /\ [](\A k, l \in DOMAIN download_queue :
            k # l => download_queue[k].download_id # download_queue[l].download_id)
    /\ [](\A h \in InFlight : JobId(h) \notin Pending)
    /\ [][\A id \in Pending :
            (download_queue' = download_queue /\ jobs' = jobs
                /\ Status(id) = "queued")
                => active_downloads'[id] = active_downloads[id]]_vars

\* C23: no operation sets a paused flag: in every reachable state the
\* paused flag of every control entry is FALSE, so no fetcher waits in its
\* pause loop.
C23_NeverPaused ==
    \A id \in DOMAIN download_control : ~download_control[id].paused
\* a transfer that has written part of its body has been cancelled
C23_Witness ==
    \E h \in DOMAIN tasks :
        /\ tasks[h].pc = "sbody"
        /\ tasks[h].stream.written > 0
        /\ ControlFlag(download_control, tasks[h].id, "cancelled")
        /\ ~ControlFlag(download_control, tasks[h].id, "paused")

====
